---- MODULE Spec2Model ----
(***************************************************************************)
(* The streakr landing page (src/App.tsx): the email-signup submission     *)
(* flow (EmailService.submitEmail, the useEmailSignup hook, and the two    *)
(* components that own a hook instance, the hero form in App and the       *)
(* ExitIntentPopup), the interactive habit demo and the signup counter.    *)
(*                                                                         *)
(* Spec drives the page through the events its rendered DOM offers         *)
(* (typing, submit buttons, "Sign up another email", mouse-leave, closing  *)
(* the popup).  SpecHook calls the hook's submitEmail and resetState       *)
(* directly, in any state, as a caller of the hook may.  SpecStore is the  *)
(* page against a table with a unique constraint on email.  SpecLive is    *)
(* the page with resetState callable at any moment and a collaborator      *)
(* that answers every request.  SpecDemo and SpecCounter are the habit     *)
(* demo and the signup counter, which share no state with the rest.        *)
(***************************************************************************)
EXTENDS Integers, Sequences, FiniteSets, TLC

\* ---------------------------------------------------------------- bounds
\* submit invocations started per state holder
MaxSubmits == 2

\* direct calls of the hook's submitEmail, over both holders
MaxCalls == 3

\* value of totalSignups from which the signup counter is no longer followed
MaxTotalSignups == 1505

\* ------------------------------------------------------------ value sets
Holders == {"hero", "popup"}

Emails == {"a@x.io", "b@x.io"}

\* values of an <input type="email"> element
Inputs == Emails \cup {""}

\* message texts the collaborator attaches to a structured error
Messages == {"", "permission denied"}

\* codes of a structured error
Codes == {"23505", "42501"}

\* texts of errors thrown by the insert call
ThrownTexts == {"Failed to fetch"}

\* string | null, string | undefined
None == <<>>

Some(m) == <<m>>

\* JavaScript truthiness of an optional string
Truthy(opt) == opt # None /\ opt[1] # ""

\* ------------------------------------------------------- collaborator
\* what `await supabase.from(...).insert(...)` can produce
Outcomes ==
  {[kind |-> "ok", code |-> "", message |-> ""]}
  \cup {[kind |-> "error", code |-> c, message |-> m] : c \in Codes, m \in Messages}
  \cup {[kind |-> "throw", code |-> "", message |-> t] : t \in ThrownTexts}

NoOutcome == [kind |-> "none", code |-> "", message |-> ""]

\* --------------------------------------------------------- EmailService
DuplicateMessage == "Email already registered!"

GenericMessage == "Failed to submit email. Please try again."

FallbackMessage == "Something went wrong"

\* EmailService.submitEmail without the branch on error.code === '23505'
EmailService_submitEmail_NoDuplicateBranch(o) ==
  IF o.kind = "throw"
    THEN [success |-> FALSE, error |-> Some(GenericMessage)]
  ELSE IF o.kind = "error"
    THEN [success |-> FALSE, error |-> Some(o.message)]
  ELSE [success |-> TRUE, error |-> None]

\* EmailService.submitEmail whose catch block returns error.message
EmailService_submitEmail_LeaksThrown(o) ==
  IF o.kind = "throw"
    THEN [success |-> FALSE, error |-> Some(o.message)]
  ELSE IF o.kind = "error"
    THEN IF o.code = "23505"
           THEN [success |-> FALSE, error |-> Some(DuplicateMessage)]
           ELSE [success |-> FALSE, error |-> Some(o.message)]
  ELSE [success |-> TRUE, error |-> None]

\* EmailService.submitEmail returning { success: true, error: '' }
EmailService_submitEmail_ErrorOnSuccess(o) ==
  IF o.kind = "throw"
    THEN [success |-> FALSE, error |-> Some(GenericMessage)]
  ELSE IF o.kind = "error"
    THEN IF o.code = "23505"
           THEN [success |-> FALSE, error |-> Some(DuplicateMessage)]
           ELSE [success |-> FALSE, error |-> Some(o.message)]
  ELSE [success |-> TRUE, error |-> Some("")]

\* the value the promise of EmailService.submitEmail resolves to
EmailService_submitEmail(o) ==
  IF o.kind = "throw"
    THEN [success |-> FALSE, error |-> Some(GenericMessage)]
  ELSE IF o.kind = "error"
    THEN IF o.code = "23505"
           THEN [success |-> FALSE, error |-> Some(DuplicateMessage)]
           ELSE [success |-> FALSE, error |-> Some(o.message)]
  ELSE [success |-> TRUE, error |-> None]

NoResult == [success |-> FALSE, error |-> None]

\* metadata object built by the hook for every call
HookMetadata == [tier |-> "founding_streaker"]

\* the empty object {}
EmptyMapping == <<>>

\* row built with a fixed source tag
Row_FixedSource(emailData) ==
  [email      |-> emailData.email,
   source     |-> "hero_form",
   metadata   |-> IF emailData.metadata = None THEN EmptyMapping
                  ELSE emailData.metadata[1],
   created_at |-> "now"]

\* row handed to insert(); metadata is optional: emailData.metadata || {}
Row(emailData) ==
  [email      |-> emailData.email,
   source     |-> emailData.source,
   metadata   |-> IF emailData.metadata = None THEN EmptyMapping
                  ELSE emailData.metadata[1],
   created_at |-> "now"]

\* ------------------------------------------------------ useEmailSignup
\* useState(false), useState(false), useState(null)
InitialHook == [isLoading |-> FALSE, success |-> FALSE, error |-> None]

\* submitEmail without setError(null)
HookSubmitStart_KeepsError(s) == [s EXCEPT !.isLoading = TRUE]

\* submitEmail up to the await: setIsLoading(true); setError(null)
HookSubmitStart(s) == [s EXCEPT !.isLoading = TRUE, !.error = None]

\* submitEmail storing the fallback text in place of result.error
HookSubmitFinish_StoresFallback(s, result) ==
  IF result.success
    THEN [s EXCEPT !.isLoading = FALSE, !.success = TRUE]
    ELSE [s EXCEPT !.isLoading = FALSE, !.error = Some(FallbackMessage)]

\* submitEmail without setSuccess(true)
HookSubmitFinish_NoSuccess(s, result) ==
  IF result.success
    THEN [s EXCEPT !.isLoading = FALSE]
    ELSE [s EXCEPT !.isLoading = FALSE,
                   !.error = IF Truthy(result.error) THEN result.error
                             ELSE Some(FallbackMessage)]

\* submitEmail without setIsLoading(false) on the success path
HookSubmitFinish_KeepsLoading(s, result) ==
  IF result.success
    THEN [s EXCEPT !.success = TRUE]
    ELSE [s EXCEPT !.isLoading = FALSE,
                   !.error = IF Truthy(result.error) THEN result.error
                             ELSE Some(FallbackMessage)]

\* submitEmail with setError(result.error), without the fallback text
HookSubmitFinish_NoFallback(s, result) ==
  IF result.success
    THEN [s EXCEPT !.isLoading = FALSE, !.success = TRUE]
    ELSE [s EXCEPT !.isLoading = FALSE, !.error = result.error]

\* submitEmail without setIsLoading(false) on the failure path
HookSubmitFinish_FailureKeepsLoading(s, result) ==
  IF result.success
    THEN [s EXCEPT !.isLoading = FALSE, !.success = TRUE]
    ELSE [s EXCEPT !.error = IF Truthy(result.error) THEN result.error
                             ELSE Some(FallbackMessage)]

\* submitEmail after the await
HookSubmitFinish(s, result) ==
  IF result.success
    THEN [s EXCEPT !.isLoading = FALSE, !.success = TRUE]
    ELSE [s EXCEPT !.isLoading = FALSE,
                   !.error = IF Truthy(result.error) THEN result.error
                             ELSE Some(FallbackMessage)]

\* resetState without setError(null)
HookReset_KeepsError(s) == [s EXCEPT !.success = FALSE]

\* resetState that also calls setIsLoading(false)
HookReset_ClearsLoading(s) ==
  [s EXCEPT !.success = FALSE, !.error = None, !.isLoading = FALSE]

\* resetState: setSuccess(false); setError(null)
HookReset(s) == [s EXCEPT !.success = FALSE, !.error = None]

\* ---------------------------------------------------------------- state
VARIABLES
  hook,              \* per holder: isLoading, success, error
  email,             \* per holder: value of the email input
  showExitPopup,     \* App state
  hasSeenExitPopup,  \* App state
  popupMounted,      \* ExitIntentPopup is in the tree (AnimatePresence)
  inflight,          \* per holder: create-row requests not yet answered
  started,           \* per holder: submit invocations started
  sent,              \* per holder: create-row requests issued
  closeTimers,       \* pending setTimeout(() => onClose(), 3000)
  store,             \* emails of the rows of table email_signups
  last,              \* the step taken last
  habits,            \* InteractiveHabitDemo state: id -> completed, streak
  toggles,           \* the last two toggleHabit calls: id, habits before
  foundingMembers,   \* SignupCounter state
  totalSignups       \* SignupCounter state

\* state of the signup flow
pageVars == <<hook, email, showExitPopup, hasSeenExitPopup, popupMounted,
              inflight, started, sent, closeTimers, store, last>>

\* state of the habit demo and of the signup counter
widgetVars == <<habits, toggles, foundingMembers, totalSignups>>

vars == <<pageVars, widgetVars>>

Mounted(h) == h = "hero" \/ popupMounted

\* the four states of the signup state machine, read off a holder's triple
IsIdle(h) == hook[h] = InitialHook

IsSubmitting(h) == hook[h].isLoading /\ ~hook[h].success /\ hook[h].error = None

IsSucceeded(h) == ~hook[h].isLoading /\ hook[h].success /\ hook[h].error = None

IsFailed(h) == ~hook[h].isLoading /\ ~hook[h].success /\ hook[h].error # None

StateOf(h) ==
  IF IsIdle(h) THEN "Idle"
  ELSE IF IsSubmitting(h) THEN "Submitting"
  ELSE IF IsSucceeded(h) THEN "Succeeded"
  ELSE IF IsFailed(h) THEN "Failed"
  ELSE "Mixed"

\* record of a step: the operation, its holder, the holder's state before
\* it, and for a settled insert call its outcome and the resulting value
Step(op, h, o, r) ==
  [op |-> op, h |-> h, from |-> StateOf(h), outcome |-> o, result |-> r]

RemoveAt(s, i) == [j \in 1..(Len(s) - 1) |-> IF j < i THEN s[j] ELSE s[j + 1]]

\* useState([...]) of InteractiveHabitDemo (names and icons left out)
InitialHabits ==
  <<[id |-> 1, completed |-> FALSE, streak |-> 7],
    [id |-> 2, completed |-> TRUE,  streak |-> 12],
    [id |-> 3, completed |-> FALSE, streak |-> 3],
    [id |-> 4, completed |-> TRUE,  streak |-> 5]>>

\* initial state of the habit demo and of the signup counter
InitWidgets ==
  /\ habits = InitialHabits
  /\ toggles = <<>>
  /\ foundingMembers = 247
  /\ totalSignups = 1247

Init ==
  /\ hook = [h \in Holders |-> InitialHook]
  /\ email = [h \in Holders |-> ""]
  /\ showExitPopup = FALSE
  /\ hasSeenExitPopup = FALSE
  /\ popupMounted = FALSE
  /\ inflight = [h \in Holders |-> <<>>]
  /\ started = [h \in Holders |-> 0]
  /\ sent = [h \in Holders |-> 0]
  /\ closeTimers = 0
  /\ store = <<>>
  /\ last = [op |-> "init", h |-> "hero", from |-> "Idle",
             outcome |-> NoOutcome, result |-> NoResult]
  /\ InitWidgets

\* the page after the exit-intent popup has opened
InitHook ==
  /\ hook = [h \in Holders |-> InitialHook]
  /\ email = [h \in Holders |-> ""]
  /\ showExitPopup = TRUE
  /\ hasSeenExitPopup = TRUE
  /\ popupMounted = TRUE
  /\ inflight = [h \in Holders |-> <<>>]
  /\ started = [h \in Holders |-> 0]
  /\ sent = [h \in Holders |-> 0]
  /\ closeTimers = 0
  /\ store = <<>>
  /\ last = [op |-> "init", h |-> "hero", from |-> "Idle",
             outcome |-> NoOutcome, result |-> NoResult]
  /\ InitWidgets

\* ------------------------------------------------------- hook operations
\* one call of the hook's submitEmail(e, source) from a handler `via`,
\* whose closure captured the render's `success`: runs synchronously up to
\* the await inside EmailService.submitEmail, that is, until the insert
\* request has been issued
CallSubmitEmail(h, e, source, via) ==
  /\ started[h] < MaxSubmits
  /\ hook' = [hook EXCEPT ![h] = HookSubmitStart(@)]
  /\ inflight' = [inflight EXCEPT ![h] =
        Append(@, [row |-> Row([email |-> e, source |-> source, metadata |-> Some(HookMetadata)]),
                   via |-> via,
                   success |-> hook[h].success])]
  /\ started' = [started EXCEPT ![h] = @ + 1]
  /\ sent' = [sent EXCEPT ![h] = @ + 1]
  /\ last' = Step("submit", h, NoOutcome, NoResult)

\* source arguments of a direct call; None is an omitted argument
SourceArgs == {None, Some("hero_form"), Some("exit_intent")}

\* default parameter: source = 'hero'
SourceOrDefault(arg) == IF arg = None THEN "hero" ELSE arg[1]

\* direct call of the hook's submitEmail
submitEmail(h, e, source) ==
  /\ Mounted(h)
  /\ started["hero"] + started["popup"] < MaxCalls
  /\ CallSubmitEmail(h, e, SourceOrDefault(source), "hook")
  /\ UNCHANGED <<email, showExitPopup, hasSeenExitPopup, popupMounted, closeTimers, store, widgetVars>>

\* resetState that also abandons the holder's pending requests
resetState_Cancels(h) ==
  /\ Mounted(h)
  /\ hook' = [hook EXCEPT ![h] = [HookReset(@) EXCEPT !.isLoading = FALSE]]
  /\ inflight' = [inflight EXCEPT ![h] = <<>>]
  /\ last' = Step("reset", h, NoOutcome, NoResult)
  /\ UNCHANGED <<email, showExitPopup, hasSeenExitPopup, popupMounted,
                 started, sent, closeTimers, store, widgetVars>>

\* direct call of the hook's resetState
resetState(h) ==
  /\ Mounted(h)
  /\ hook' = [hook EXCEPT ![h] = HookReset(@)]
  /\ last' = Step("reset", h, NoOutcome, NoResult)
  /\ UNCHANGED <<email, showExitPopup, hasSeenExitPopup, popupMounted,
                 inflight, started, sent, closeTimers, store, widgetVars>>

\* InsertReturns with a catch block that issues the request again
InsertReturns_Retries(h, i, o) ==
  /\ i \in 1..Len(inflight[h])
  /\ LET req    == inflight[h][i]
         result == EmailService_submitEmail(o)
         retry  == o.kind = "throw" /\ sent[h] <= MaxSubmits
     IN /\ hook' = [hook EXCEPT ![h] =
                      IF Mounted(h) /\ ~retry THEN HookSubmitFinish(@, result) ELSE @]
        /\ email' = IF req.via = "handleHeroSubmit" /\ req.success /\ ~retry
                      THEN [email EXCEPT !["hero"] = ""]
                      ELSE email
        /\ closeTimers' = IF req.via = "handleSubmit" /\ req.success /\ ~retry
                            THEN closeTimers + 1
                            ELSE closeTimers
        /\ last' = Step("return", h, o, result)
        /\ inflight' = [inflight EXCEPT ![h] =
                          IF retry THEN Append(RemoveAt(@, i), req) ELSE RemoveAt(@, i)]
        /\ sent' = [sent EXCEPT ![h] = IF retry THEN @ + 1 ELSE @]
  /\ UNCHANGED <<showExitPopup, hasSeenExitPopup, popupMounted, started, store, widgetVars>>

\* the insert call of request i of holder h settles with outcome o; the
\* continuations of EmailService.submitEmail, of the hook's submitEmail and
\* of the handler that awaited it run to completion
Settle(h, i, o) ==
  /\ i \in 1..Len(inflight[h])
  /\ LET req    == inflight[h][i]
         result == EmailService_submitEmail(o)
     IN /\ hook' = [hook EXCEPT ![h] =
                      IF Mounted(h) THEN HookSubmitFinish(@, result) ELSE @]
        \* handleHeroSubmit: if (success) setEmail('')
        /\ email' = IF req.via = "handleHeroSubmit" /\ req.success
                      THEN [email EXCEPT !["hero"] = ""]
                      ELSE email
        \* ExitIntentPopup.handleSubmit: if (success) setTimeout(onClose, 3000)
        /\ closeTimers' = IF req.via = "handleSubmit" /\ req.success
                            THEN closeTimers + 1
                            ELSE closeTimers
        /\ last' = Step("return", h, o, result)
  /\ inflight' = [inflight EXCEPT ![h] = RemoveAt(@, i)]
  /\ UNCHANGED <<showExitPopup, hasSeenExitPopup, popupMounted, started, sent, widgetVars>>

\* a collaborator about which nothing is assumed answers request i of
\* holder h with any outcome; the contents of its table are not tracked
InsertReturns(h, i, o) ==
  /\ Settle(h, i, o)
  /\ UNCHANGED store

\* emails of the rows of the table
Range(s) == {s[i] : i \in 1..Len(s)}

\* answers of a collaborator whose table has a unique constraint on email
\* and which refuses a row for no other reason
StoreOutcomes(e) ==
  IF e \in Range(store)
    THEN {[kind |-> "error", code |-> "23505", message |-> m] : m \in Messages}
    ELSE {[kind |-> "ok", code |-> "", message |-> ""]}

\* the uniqueness-enforcing collaborator handles request i of holder h and
\* answers it
UniqueInsert(h, i, o) ==
  /\ i \in 1..Len(inflight[h])
  /\ o \in StoreOutcomes(inflight[h][i].row.email)
  /\ Settle(h, i, o)
  /\ store' = IF o.kind = "ok" THEN Append(store, inflight[h][i].row.email)
              ELSE store

\* ------------------------------------------------------------- the page
\* the signup form rendered also in the success view
FormShown_Always(h) == Mounted(h)

\* the signup form is rendered: {success ? <welcome/> : <form/>}
FormShown(h) == Mounted(h) /\ ~hook[h].success

\* submit button with disabled={!email}
SubmitDisabled_IgnoresLoading(h) == email[h] = ""

\* submit button: disabled={isLoading || !email}
SubmitDisabled(h) == hook[h].isLoading \/ email[h] = ""

\* <input type="email" required>: the browser fires onSubmit only for a
\* non-empty, well-formed address
PassesValidation(v) == v \in Emails

\* submit button that is also disabled while an error is displayed
CanSubmit_NotAfterError(h) ==
  /\ FormShown(h)
  /\ ~SubmitDisabled(h)
  /\ hook[h].error = None
  /\ PassesValidation(email[h])

\* submit with neither disabled={... || !email} nor the required attribute
CanSubmit_AnyEmail(h) ==
  /\ FormShown(h)
  /\ ~hook[h].isLoading

\* the form's onSubmit handler can be triggered by the user
CanSubmit(h) ==
  /\ FormShown(h)
  /\ ~SubmitDisabled(h)
  /\ PassesValidation(email[h])

\* onChange={(e) => setEmail(e.target.value)}
setEmail(h, v) ==
  /\ FormShown(h)
  /\ v # email[h]
  /\ email' = [email EXCEPT ![h] = v]
  /\ last' = Step("ui", h, NoOutcome, NoResult)
  /\ UNCHANGED <<hook, showExitPopup, hasSeenExitPopup, popupMounted,
                 inflight, started, sent, closeTimers, store, widgetVars>>

\* App.handleHeroSubmit, up to the await
handleHeroSubmit ==
  /\ CanSubmit("hero")
  /\ CallSubmitEmail("hero", email["hero"], "hero_form", "handleHeroSubmit")
  /\ UNCHANGED <<email, showExitPopup, hasSeenExitPopup, popupMounted, closeTimers, store, widgetVars>>

\* ExitIntentPopup.handleSubmit, up to the await
handleSubmit ==
  /\ CanSubmit("popup")
  /\ CallSubmitEmail("popup", email["popup"], "exit_intent", "handleSubmit")
  /\ UNCHANGED <<email, showExitPopup, hasSeenExitPopup, popupMounted, closeTimers, store, widgetVars>>

\* handleNewSignup over signup state shared by all hook instances
handleNewSignup_ResetsAll ==
  /\ hook["hero"].success
  /\ hook' = [h \in Holders |-> HookReset(hook[h])]
  /\ email' = [email EXCEPT !["hero"] = ""]
  /\ last' = Step("reset", "hero", NoOutcome, NoResult)
  /\ UNCHANGED <<showExitPopup, hasSeenExitPopup, popupMounted,
                 inflight, started, sent, closeTimers, store, widgetVars>>

\* App.handleNewSignup, the "Sign up another email" button of the welcome view
handleNewSignup ==
  /\ hook["hero"].success
  /\ hook' = [hook EXCEPT !["hero"] = HookReset(@)]
  /\ email' = [email EXCEPT !["hero"] = ""]
  /\ last' = Step("reset", "hero", NoOutcome, NoResult)
  /\ UNCHANGED <<showExitPopup, hasSeenExitPopup, popupMounted,
                 inflight, started, sent, closeTimers, store, widgetVars>>

\* mouse positions of a mouseleave event
ClientYs == {0, 10}

\* mouseleave listener without the test of hasSeenExitPopup
handleMouseLeave_IgnoresSeen(clientY) ==
  /\ clientY <= 0 /\ ~showExitPopup /\ ~hook["hero"].success
  /\ showExitPopup' = TRUE
  /\ hasSeenExitPopup' = TRUE
  /\ popupMounted' = TRUE
  /\ last' = Step("ui", "popup", NoOutcome, NoResult)
  /\ UNCHANGED <<hook, email, inflight, started, sent, closeTimers, store, widgetVars>>

\* App's mouseleave listener
handleMouseLeave(clientY) ==
  /\ clientY <= 0 /\ ~hasSeenExitPopup /\ ~hook["hero"].success
  /\ showExitPopup' = TRUE
  /\ hasSeenExitPopup' = TRUE
  /\ popupMounted' = TRUE
  /\ last' = Step("ui", "popup", NoOutcome, NoResult)
  /\ UNCHANGED <<hook, email, inflight, started, sent, closeTimers, store, widgetVars>>

\* onClose={() => setShowExitPopup(false)}: the backdrop or the x button
onClose ==
  /\ popupMounted
  /\ showExitPopup
  /\ showExitPopup' = FALSE
  /\ last' = Step("ui", "popup", NoOutcome, NoResult)
  /\ UNCHANGED <<hook, email, hasSeenExitPopup, popupMounted,
                 inflight, started, sent, closeTimers, store, widgetVars>>

\* AnimatePresence removes the popup once its exit animation has ended;
\* the component's state is discarded
exitComplete ==
  /\ popupMounted
  /\ ~showExitPopup
  /\ popupMounted' = FALSE
  /\ hook' = [hook EXCEPT !["popup"] = InitialHook]
  /\ email' = [email EXCEPT !["popup"] = ""]
  /\ last' = Step("ui", "popup", NoOutcome, NoResult)
  /\ UNCHANGED <<showExitPopup, hasSeenExitPopup, inflight, started, sent, closeTimers, store, widgetVars>>

\* ------------------------------------------------------- the habit demo
Max(a, b) == IF a >= b THEN a ELSE b

Min(a, b) == IF a <= b THEN a ELSE b

\* toggled habit whose streak is kept when the habit is uncompleted
ToggledHabit_NoDecrement(habit) ==
  [habit EXCEPT !.completed = ~habit.completed,
                !.streak = IF ~habit.completed THEN habit.streak + 1
                           ELSE habit.streak]

\* { ...habit, completed: !habit.completed,
\*   streak: !habit.completed ? habit.streak + 1 : Math.max(0, habit.streak - 1) }
ToggledHabit(habit) ==
  [habit EXCEPT !.completed = ~habit.completed,
                !.streak = IF ~habit.completed THEN habit.streak + 1
                           ELSE Max(0, habit.streak - 1)]

\* updater that toggles every habit
ToggledHabits_All(prev, id) ==
  [i \in 1..Len(prev) |-> ToggledHabit(prev[i])]

\* prev.map(habit => habit.id === id ? {...} : habit)
ToggledHabits(prev, id) ==
  [i \in 1..Len(prev) |-> IF prev[i].id = id THEN ToggledHabit(prev[i]) ELSE prev[i]]

\* ids of the rendered habits: onClick={() => toggleHabit(habit.id)}
HabitIds == {habits[i].id : i \in 1..Len(habits)}

\* the habit with the given id
HabitOf(hs, id) == hs[CHOOSE i \in 1..Len(hs) : hs[i].id = id]

\* habits.filter(h => h.completed).length
completedCount == Cardinality({i \in 1..Len(habits) : habits[i].completed})

RECURSIVE SumStreaks(_)
SumStreaks(hs) == IF hs = <<>> THEN 0 ELSE Head(hs).streak + SumStreaks(Tail(hs))

\* habits.reduce((sum, h) => sum + h.streak, 0)
totalStreak == SumStreaks(habits)

\* toggleHabit(id), from the click on a habit's row
toggleHabit(id) ==
  /\ habits' = ToggledHabits(habits, id)
  /\ toggles' = LET t == [id |-> id, before |-> habits]
                IN IF Len(toggles) = 2 THEN <<toggles[2], t>> ELSE Append(toggles, t)
  /\ UNCHANGED <<pageVars, foundingMembers, totalSignups>>

\* --------------------------------------------------- the signup counter
\* values of Math.random(), in tenths
Randoms == 0..9

\* interval callback without Math.min(..., 500)
tick_NoCap(r1, r2) ==
  /\ totalSignups < MaxTotalSignups
  /\ IF r1 > 7
       THEN /\ foundingMembers' = foundingMembers + 1
            /\ totalSignups' = totalSignups + ((r2 * 3) \div 10) + 1
       ELSE UNCHANGED <<foundingMembers, totalSignups>>
  /\ UNCHANGED <<pageVars, habits, toggles>>

\* the setInterval callback of SignupCounter, every 4000 ms; r1 and r2 are
\* the values of its two Math.random() calls
tick(r1, r2) ==
  /\ totalSignups < MaxTotalSignups
  /\ IF r1 > 7
       THEN /\ foundingMembers' = Min(foundingMembers + 1, 500)
            /\ totalSignups' = totalSignups + ((r2 * 3) \div 10) + 1
       ELSE UNCHANGED <<foundingMembers, totalSignups>>
  /\ UNCHANGED <<pageVars, habits, toggles>>

\* ------------------------------------------------------- specifications
Next ==
  \/ \E h \in Holders, v \in Inputs : setEmail(h, v)
  \/ handleHeroSubmit
  \/ handleSubmit
  \/ handleNewSignup
  \/ \E y \in ClientYs : handleMouseLeave(y)
  \/ onClose
  \/ exitComplete
  \/ \E h \in Holders, i \in 1..MaxSubmits, o \in Outcomes : InsertReturns(h, i, o)

Spec == Init /\ [][Next]_vars

\* the page against the uniqueness-enforcing collaborator
NextStore ==
  \/ \E h \in Holders, v \in Inputs : setEmail(h, v)
  \/ handleHeroSubmit
  \/ handleSubmit
  \/ handleNewSignup
  \/ \E y \in ClientYs : handleMouseLeave(y)
  \/ onClose
  \/ exitComplete
  \/ \E h \in Holders, i \in 1..MaxSubmits, o \in Outcomes : UniqueInsert(h, i, o)

SpecStore == Init /\ [][NextStore]_vars

NextHook ==
  \/ \E h \in Holders, e \in Inputs, a \in SourceArgs : submitEmail(h, e, a)
  \/ \E h \in Holders : resetState(h)
  \/ \E h \in Holders, i \in 1..MaxSubmits, o \in Outcomes : InsertReturns(h, i, o)

SpecHook == InitHook /\ [][NextHook]_vars

\* the page's events, resetState invoked by its caller at any moment, and
\* a collaborator that answers or faults on every request sooner or later
NextLive ==
  \/ Next
  \/ \E h \in Holders : resetState(h)

SpecLive ==
  /\ Init
  /\ [][NextLive]_vars
  /\ \A h \in Holders :
       WF_vars(\E i \in 1..MaxSubmits, o \in Outcomes : InsertReturns(h, i, o))

\* the habit demo on its own: it shares no state with the rest of the page
NextDemo == \E id \in HabitIds : toggleHabit(id)

SpecDemo == Init /\ [][NextDemo]_vars

\* the signup counter on its own
NextCounter == \E r1 \in Randoms, r2 \in Randoms : tick(r1, r2)

SpecCounter == Init /\ [][NextCounter]_vars

\* ---------------------------------------------------------------- claims
\* the step taken last settled an insert call of holder h
Returned == last.op = "return"

\* C1: when the insert call returns a structured error with code '23505',
\* EmailService.submitEmail resolves to {success: false, error: "Email
\* already registered!"} and the issuing holder, if still mounted, is in
\* Failed with exactly that message, whatever message the error carried.
C1_DuplicateMapsToFixedMessage ==
  (Returned /\ last.outcome.kind = "error" /\ last.outcome.code = "23505")
    => /\ last.result = [success |-> FALSE, error |-> Some(DuplicateMessage)]
       /\ Mounted(last.h) =>
            /\ IsFailed(last.h)
            /\ hook[last.h].error = Some(DuplicateMessage)

\* a duplicate error carrying a text of its own has been mapped to the
\* fixed message in the popup's holder
C1_Witness ==
  /\ Returned /\ last.outcome.kind = "error" /\ last.outcome.code = "23505"
  /\ last.outcome.message = "permission denied"
  /\ Mounted(last.h) /\ last.h = "popup"
  /\ hook[last.h].error = Some(DuplicateMessage)

\* C2 as stated: after a structured error with a code other than '23505'
\* the holder is in Failed and stores the collaborator's message verbatim,
\* for every message, the empty string included.
C2_Original ==
  (Returned /\ last.outcome.kind = "error" /\ last.outcome.code # "23505"
     /\ Mounted(last.h))
    => /\ IsFailed(last.h)
       /\ hook[last.h].error = Some(last.outcome.message)

\* C2 amended: after a structured error with a code other than '23505' the
\* result carries the collaborator's message verbatim and the holder is in
\* Failed; it stores the message verbatim when the message is non-empty and
\* "Something went wrong" when the message is the empty string.
C2_OtherErrorMessageSurfaced ==
  (Returned /\ last.outcome.kind = "error" /\ last.outcome.code # "23505")
    => /\ last.result = [success |-> FALSE, error |-> Some(last.outcome.message)]
       /\ Mounted(last.h) =>
            /\ IsFailed(last.h)
            /\ hook[last.h].error =
                 IF last.outcome.message # "" THEN Some(last.outcome.message)
                 ELSE Some(FallbackMessage)

C2_Witness ==
  /\ Returned /\ last.outcome.kind = "error" /\ last.outcome.code = "42501"
  /\ last.outcome.message = "permission denied"
  /\ last.h = "hero"
  /\ hook["hero"].error = Some("permission denied")

\* C3: when the insert call throws, the result is {success: false, error:
\* "Failed to submit email. Please try again."}, the issuing holder, if
\* still mounted, is in Failed with exactly that message, and the thrown
\* text is neither in the result nor in the stored message.
C3_ThrowMapsToGenericMessage ==
  (Returned /\ last.outcome.kind = "throw")
    => /\ last.result = [success |-> FALSE, error |-> Some(GenericMessage)]
       /\ last.result.error # Some(last.outcome.message)
       /\ Mounted(last.h) =>
            /\ IsFailed(last.h)
            /\ hook[last.h].error = Some(GenericMessage)
            /\ hook[last.h].error # Some(last.outcome.message)

C3_Witness ==
  /\ Returned /\ last.outcome.kind = "throw"
  /\ last.outcome.message = "Failed to fetch"
  /\ Mounted(last.h)
  /\ hook[last.h].error = Some(GenericMessage)

\* C4: when the insert call returns without an error the result is
\* {success: true} with no error field and the issuing holder, if still
\* mounted, is in Succeeded: isLoading false, success true, error null.
C4_OkMapsToSucceeded ==
  (Returned /\ last.outcome.kind = "ok")
    => /\ last.result = [success |-> TRUE, error |-> None]
       /\ Mounted(last.h) =>
            /\ ~hook[last.h].isLoading
            /\ hook[last.h].success
            /\ hook[last.h].error = None

\* a retry after a failure has succeeded
C4_Witness ==
  /\ Returned /\ last.outcome.kind = "ok"
  /\ Mounted(last.h)
  /\ started[last.h] = 2
  /\ IsSucceeded(last.h)

\* C5: on the page every holder has at most one create-row request in
\* flight.
C5_AtMostOneInFlight == \A h \in Holders : Len(inflight[h]) <= 1

\* both holders have a request in flight, and the hero form has already
\* issued an earlier one
C5_Witness ==
  /\ \A h \in Holders : Len(inflight[h]) = 1 /\ hook[h].isLoading
  /\ sent["hero"] = 2

\* C6 as stated: a submit invoked on a holder that is Submitting (isLoading
\* true, a request unresolved) issues no request: the number of requests
\* sent is the same after the call as before it.
C6_Original ==
  [][\A h \in Holders :
       (IsSubmitting(h) /\ Len(inflight[h]) > 0 /\ started'[h] = started[h] + 1)
         => sent'[h] = sent[h]]_vars

\* C7: at every point the number of create-row requests sent by a holder
\* equals the number of submit invocations it started, and the settling of
\* an insert call, whatever its outcome, sends none.
C7_OneRequestPerSubmit ==
  [][\A h \in Holders :
       /\ sent'[h] = started'[h]
       /\ started'[h] = started[h] + 1
            => sent'[h] = sent[h] + 1 /\ Len(inflight'[h]) = Len(inflight[h]) + 1
       /\ (last'.op = "return" /\ last'.h = h)
            => sent'[h] = sent[h] /\ Len(inflight'[h]) = Len(inflight[h]) - 1]_vars

\* a holder has started two submits, the first of which failed by a thrown
\* fault, and has sent two requests
C7_Witness ==
  /\ Returned /\ last.outcome.kind = "throw"
  /\ sent[last.h] = 2 /\ started[last.h] = 2
  /\ inflight[last.h] = <<>>

\* C8: resetState invoked on a holder in Succeeded, or in Failed with any
\* message, leaves it in Idle: isLoading false, success false, error null.
C8_ResetFromSettled ==
  (last.op = "reset" /\ last.from \in {"Succeeded", "Failed"})
    => /\ ~hook[last.h].isLoading
       /\ ~hook[last.h].success
       /\ hook[last.h].error = None

C8_Witness ==
  /\ last.op = "reset" /\ last.from = "Failed"
  /\ IsIdle(last.h)

\* C9 as stated: resetState invoked in any of the four states, Submitting
\* included, leaves the holder in Idle, and an Idle holder stays Idle until
\* a submit is invoked on it.
C9_Original ==
  [][\A h \in Holders :
       /\ (last'.op = "reset" /\ last'.h = h
             /\ last'.from \in {"Idle", "Submitting", "Succeeded", "Failed"})
            => IsIdle(h)'
       /\ (IsIdle(h) /\ started'[h] = started[h]) => IsIdle(h)']_vars

\* C10: on the page a holder whose success flag is true issues no
\* create-row request; the flag is cleared only by resetState.
C10_NoRequestWhileSucceeded ==
  [][\A h \in Holders :
       /\ hook[h].success => sent'[h] = sent[h]
       /\ (hook[h].success /\ ~hook'[h].success)
            => (last'.op = "reset" \/ ~Mounted(h)')]_vars

\* the hero form has issued a second request from Idle, that is, after a
\* success and a reset
C10_Witness ==
  /\ last.op = "submit" /\ last.h = "hero" /\ last.from = "Idle"
  /\ sent["hero"] = 2

\* C11: on the page a mounted holder in Failed, with any message, shows its
\* form, and its submit can be triggered as soon as the email input holds
\* an address; a submit invoked from Failed leaves the holder in Submitting
\* (isLoading true, error null) with its request in flight.
C11_RetryFromFailed ==
  /\ \A h \in Holders :
       (Mounted(h) /\ IsFailed(h))
         => /\ FormShown(h)
            /\ email[h] # "" => CanSubmit(h)
  /\ (last.op = "submit" /\ last.from = "Failed")
       => /\ hook[last.h].isLoading
          /\ hook[last.h].error = None
          /\ ~hook[last.h].success
          /\ Len(inflight[last.h]) = 1

C11_Witness ==
  /\ last.op = "submit" /\ last.from = "Failed"
  /\ IsSubmitting(last.h)
  /\ started[last.h] = 2

\* source tag passed by the form of holder h
FormSource(h) == IF h = "hero" THEN "hero_form" ELSE "exit_intent"

\* this step settles a request of holder h
ReturnStep(h) ==
  /\ last'.op = "return" /\ last'.h = h
  /\ Len(inflight'[h]) = Len(inflight[h]) - 1

C13_SecondSubmitIsDuplicate ==
  /\ [](\A i, j \in 1..Len(store) : store[i] = store[j] => i = j)
  /\ [][\A h \in Holders :
          ReturnStep(h) =>
            IF inflight[h][1].row.email \in Range(store)
              THEN /\ last'.result = [success |-> FALSE, error |-> Some(DuplicateMessage)]
                   /\ store' = store
              ELSE /\ last'.result = [success |-> TRUE, error |-> None]
                   /\ store' = Append(store, inflight[h][1].row.email)]_vars

\* the hero form has submitted the same address twice: the first was
\* stored, the second refused
C13_Witness ==
  /\ Returned /\ last.h = "hero"
  /\ started["hero"] = 2 /\ started["popup"] = 0
  /\ last.result = [success |-> FALSE, error |-> Some(DuplicateMessage)]
  /\ Len(store) = 1

\* C14: with a collaborator that answers or faults on every request, every
\* request issued is settled in the end; a request leaves the set of
\* pending requests only by being settled, whatever resetState, setEmail,
\* onClose or the popup's removal do meanwhile, and is not altered while
\* pending; and a mounted holder in Submitting leaves it, only by the
\* settling of its request, for Succeeded or Failed.
C14_RunsToCompletion ==
  /\ \A h \in Holders : (inflight[h] # <<>>) ~> (inflight[h] = <<>>)
  /\ \A h \in Holders :
       (IsSubmitting(h) /\ Mounted(h))
          ~> (IsSucceeded(h) \/ IsFailed(h) \/ ~Mounted(h))
  /\ [][\A h \in Holders :
          /\ ~ReturnStep(h)
               => /\ Len(inflight'[h]) >= Len(inflight[h])
                  /\ \A i \in 1..Len(inflight[h]) : inflight'[h][i] = inflight[h][i]
          /\ (IsSubmitting(h) /\ Mounted(h)' /\ hook'[h] # hook[h])
               => /\ ReturnStep(h)
                  /\ IsSucceeded(h)' \/ IsFailed(h)']_vars

\* the popup's request is still pending after its email was edited, the
\* popup was closed and resetState was invoked
C14_Witness ==
  /\ last.op = "reset" /\ last.h = "popup" /\ last.from = "Submitting"
  /\ Len(inflight["popup"]) = 1
  /\ hook["popup"].isLoading
  /\ email["popup"] = ""
  /\ ~showExitPopup

\* C15: a holder's isLoading goes from true to false only in the step that
\* settles a request of that holder; neither resetState nor a further
\* submit clears it, so it stays true for as long as the collaborator does
\* not answer.
C15_OnlyAnswerEndsLoading ==
  [][\A h \in Holders :
       (hook[h].isLoading /\ ~hook'[h].isLoading) => ReturnStep(h)]_vars

\* resetState was invoked on a Submitting holder, which is still loading
C15_Witness ==
  /\ last.op = "reset" /\ last.from = "Submitting"
  /\ hook[last.h].isLoading
  /\ inflight[last.h] # <<>>
  /\ started[last.h] = 2

\* C16: every value EmailService.submitEmail resolves to has no error field
\* when its success is true, whatever the outcome of the insert call.
C16_NoErrorOnSuccess ==
  Returned => (last.result.success => last.result.error = None)

C16_Witness ==
  /\ Returned /\ last.outcome.kind = "ok"
  /\ last.result.success /\ last.result.error = None
  /\ last.h = "popup"

\* C17: every create-row request has exactly the fields email, source,
\* metadata and created_at; its source is 'hero_form' when the hero form
\* issued it and 'exit_intent' when the popup did; right after the submit
\* its email is the value of the form's input; its metadata is the mapping
\* built by the hook, and a call that supplies no metadata sends the empty
\* mapping.
C17_RowFields ==
  /\ \A h \in Holders : \A i \in 1..Len(inflight[h]) :
       /\ DOMAIN inflight[h][i].row = {"email", "source", "metadata", "created_at"}
       /\ inflight[h][i].row.source = FormSource(h)
       /\ inflight[h][i].row.metadata = HookMetadata
  /\ last.op = "submit"
       => inflight[last.h][Len(inflight[last.h])].row.email = email[last.h]
  /\ \A e \in Inputs, src \in {"hero", "hero_form", "exit_intent"} :
       Row([email |-> e, source |-> src, metadata |-> None]).metadata = EmptyMapping

\* both forms have a request pending, with different addresses
C17_Witness ==
  /\ last.op = "submit"
  /\ Len(inflight["hero"]) = 1 /\ Len(inflight["popup"]) = 1
  /\ inflight["hero"][1].row.source = "hero_form"
  /\ inflight["popup"][1].row.source = "exit_intent"
  /\ inflight["hero"][1].row.email # inflight["popup"][1].row.email

\* C18: on the page every create-row request carries a non-empty email and
\* a non-empty source.
C18_NonEmptyEmailAndSource ==
  \A h \in Holders : \A i \in 1..Len(inflight[h]) :
    /\ inflight[h][i].row.email # ""
    /\ inflight[h][i].row.source # ""

\* a request is pending although the input was emptied after the submit
C18_Witness ==
  /\ Len(inflight["hero"]) = 1
  /\ email["hero"] = ""
  /\ inflight["hero"][1].row.email \in Emails

\* C19: on the page the triple of a holder changes only in a step that is
\* that holder's own submit, the settling of its own request or its own
\* reset, or, for the popup, by the removal of the component; a submit, a
\* settling or a reset of one holder leaves the other holder's triple as it
\* was.
C19_HoldersIndependent ==
  [][\A h \in Holders :
       /\ hook'[h] # hook[h]
            => \/ last'.h = h /\ last'.op \in {"submit", "return", "reset"}
               \/ h = "popup" /\ ~popupMounted'
       /\ (last'.h = h /\ last'.op \in {"submit", "return", "reset"})
            => \A g \in Holders \ {h} : hook'[g] = hook[g]]_vars

\* the hero form was reset while the popup shows an error
C19_Witness ==
  /\ last.op = "reset" /\ last.h = "hero" /\ last.from = "Succeeded"
  /\ IsIdle("hero")
  /\ Mounted("popup") /\ IsFailed("popup")

\* C20: on the page the triple of every holder is one of Idle, Submitting,
\* Succeeded and Failed: isLoading and success are never both true, success
\* is never true with a non-null error, isLoading is never true with a
\* non-null error.
C20_TripleIsOneState ==
  \A h \in Holders :
    /\ StateOf(h) \in {"Idle", "Submitting", "Succeeded", "Failed"}
    /\ ~(hook[h].isLoading /\ hook[h].success)
    /\ ~(hook[h].success /\ hook[h].error # None)
    /\ ~(hook[h].isLoading /\ hook[h].error # None)

\* the hero form is Succeeded while the popup, after a failure, is
\* Submitting again
C20_Witness ==
  /\ IsSucceeded("hero")
  /\ Mounted("popup") /\ IsSubmitting("popup")
  /\ started["popup"] = 2

\* C21 as stated: once a request issued by the popup's handleSubmit has
\* been answered without an error, a timer that invokes onClose is pending,
\* so that the popup closes without a further user action.
C21_Original ==
  (Returned /\ last.h = "popup" /\ last.outcome.kind = "ok")
    => closeTimers > 0

\* C22 as stated: once a request issued by handleHeroSubmit has been
\* answered without an error, the hero form's email state is the empty
\* string.
C22_Original ==
  (Returned /\ last.h = "hero" /\ last.outcome.kind = "ok")
    => email["hero"] = ""

\* C23: on the page a holder in Failed stores a non-empty message; a call
\* that completes without success leaves its mounted holder with a non-empty
\* message, hence not in Idle, and the message is "Something went wrong"
\* when the result carries no message or an empty one.
C23_FailedHasMessage ==
  /\ \A h \in Holders : IsFailed(h) => Truthy(hook[h].error)
  /\ (Returned /\ ~last.result.success /\ Mounted(last.h))
       => /\ Truthy(hook[last.h].error)
          /\ IsFailed(last.h) /\ ~IsIdle(last.h)
          /\ ~Truthy(last.result.error)
               => hook[last.h].error = Some(FallbackMessage)

\* a structured error with an empty message has been stored as the
\* fallback text
C23_Witness ==
  /\ Returned /\ last.outcome.kind = "error" /\ last.outcome.message = ""
  /\ last.result.error = Some("")
  /\ Mounted(last.h) /\ IsFailed(last.h)
  /\ hook[last.h].error = Some(FallbackMessage)

\* C24: on the page, for every holder whose component is mounted, isLoading
\* is true exactly when the holder has a create-row request in flight; right
\* after a submit the holder is loading with one request in flight, and
\* right after the outcome of its request has been applied, whatever the
\* outcome, the holder is not loading and has no request in flight.
C24_LoadingIffInFlight ==
  /\ \A h \in Holders :
       Mounted(h) => (hook[h].isLoading <=> inflight[h] # <<>>)
  /\ last.op = "submit"
       => hook[last.h].isLoading /\ Len(inflight[last.h]) = 1
  /\ (Returned /\ Mounted(last.h))
       => ~hook[last.h].isLoading /\ inflight[last.h] = <<>>

\* the hero form's request has just failed with a thrown error while the
\* popup's request is still pending
C24_Witness ==
  /\ Returned /\ last.h = "hero" /\ last.outcome.kind = "throw"
  /\ ~hook["hero"].isLoading /\ inflight["hero"] = <<>>
  /\ Mounted("popup") /\ hook["popup"].isLoading /\ Len(inflight["popup"]) = 1

\* C25: the popup opens (showExitPopup goes from false to true) only in a
\* step taken while hasSeenExitPopup and the hero form's success flag are
\* both false, and that step sets hasSeenExitPopup; hasSeenExitPopup is
\* never cleared; the popup is shown or mounted only after it has been
\* seen.  Hence the popup opens at most once, not again after it was
\* closed, and never while the hero form's success flag is true.
C25_PopupOpensOnce ==
  [][/\ (~showExitPopup /\ showExitPopup')
          => /\ ~hasSeenExitPopup /\ hasSeenExitPopup'
             /\ ~hook["hero"].success
             /\ ~popupMounted
     /\ hasSeenExitPopup => hasSeenExitPopup'
     /\ (showExitPopup' \/ popupMounted') => hasSeenExitPopup'
     /\ (hasSeenExitPopup \/ hook["hero"].success) => (showExitPopup' => showExitPopup)]_vars

\* the popup was opened, closed and removed, and the hero form has
\* succeeded since: no mouse-leave event opens the popup now
C25_Witness ==
  /\ hasSeenExitPopup /\ ~showExitPopup /\ ~popupMounted
  /\ hook["hero"].success
  /\ ~ENABLED (\E y \in ClientYs : handleMouseLeave(y))

\* C26: in the habit demo every habit's streak is >= 0 in every state
\* reachable from the initial four habits, and when the last two toggleHabit
\* calls were for the same habit, that habit's completed flag and streak
\* are those it had before the two calls.
C26_DoubleToggleRestores ==
  /\ \A i \in 1..Len(habits) : habits[i].streak >= 0
  /\ (Len(toggles) = 2 /\ toggles[1].id = toggles[2].id)
       => /\ HabitOf(habits, toggles[1].id).completed
               = HabitOf(toggles[1].before, toggles[1].id).completed
          /\ HabitOf(habits, toggles[1].id).streak
               = HabitOf(toggles[1].before, toggles[1].id).streak

\* 'Read 30min' was uncompleted (streak 11) and completed again (streak 12)
C26_Witness ==
  /\ Len(toggles) = 2 /\ toggles[1].id = 2 /\ toggles[2].id = 2
  /\ ~HabitOf(toggles[2].before, 2).completed
  /\ HabitOf(toggles[2].before, 2).streak = 11
  /\ HabitOf(habits, 2).completed /\ HabitOf(habits, 2).streak = 12

\* C27: in the habit demo completedCount is within 0..4 in every state, and
\* a toggleHabit(id) changes the habit with that id and no other, changes
\* completedCount by +1 or -1 and totalStreak by the same amount, +1
\* exactly when the habit has become completed.
C27_ToggleChangesOneHabit ==
  /\ [](completedCount \in 0..4)
  /\ [][habits' # habits =>
          LET id == toggles'[Len(toggles')].id
              d  == completedCount' - completedCount
          IN /\ \A i \in 1..Len(habits) :
                  /\ habits'[i].id = habits[i].id
                  /\ (habits[i].id # id) = (habits'[i] = habits[i])
             /\ Len(habits') = Len(habits)
             /\ d \in {1, -1}
             /\ totalStreak' - totalStreak = d
             /\ (d = 1) = HabitOf(habits', id).completed]_vars

\* the two completed habits have been uncompleted: nothing is completed and
\* the streaks sum to 7 + 11 + 3 + 4
C27_Witness ==
  /\ completedCount = 0
  /\ totalStreak = 25
  /\ Len(toggles) = 2 /\ toggles[1].id # toggles[2].id

\* C28: in the signup counter foundingMembers never exceeds 500 and
\* totalSignups - foundingMembers >= 1000 in every state; no step lowers
\* either counter, and a tick that fires raises totalSignups by 1, 2 or 3
\* and foundingMembers by at most 1.
C28_CounterBounds ==
  /\ [](foundingMembers <= 500 /\ totalSignups - foundingMembers >= 1000)
  /\ [][/\ foundingMembers' >= foundingMembers
        /\ totalSignups' >= totalSignups
        /\ (foundingMembers' # foundingMembers \/ totalSignups' # totalSignups)
             => /\ totalSignups' - totalSignups \in 1..3
                /\ foundingMembers' - foundingMembers \in {0, 1}]_vars

\* foundingMembers has reached its cap and totalSignups has grown past the
\* value it has after 253 ticks of one signup each
C28_Witness ==
  /\ foundingMembers = 500
  /\ totalSignups > 1500

====
